---- MODULE Spec2Model ----
(***************************************************************************)
(* Wire-format framing layer of rustls: the enum_builder! enumerations     *)
(* (msgs/macros.rs) and the outbound record frame                          *)
(* (msgs/message/outbound_opaque.rs).                                      *)
(*                                                                         *)
(* Byte vectors (Vec<u8>, &[u8]) are sequences of integers in 0..255,      *)
(* 1-indexed in TLA+ (byte k of the source is element k+1).                *)
(* An enumeration value is <<name>> for a named variant and                *)
(* <<"Unknown", x>> for the open variant.                                  *)
(***************************************************************************)
EXTENDS Integers, Sequences, FiniteSets, TLC

VARIABLES
    \* --- enumeration conversions (macros.rs) ---
    en,       \* the enumeration under test (a descriptor record)
    x,        \* the integer handed to From<$uint>
    v,        \* the enumeration value built by From<$uint> (<<>>: none yet)
    y,        \* the integer returned by $get_uint (-1: none yet)
    \* --- enumeration codec (macros.rs, impl Codec) ---
    rd,       \* the Reader the enumeration is read from
    rres,     \* result of Codec::read
    enc,      \* bytes produced by Codec::encode of the value read
    \* --- outbound frame construction (outbound_opaque.rs) ---
    pp,       \* the PrefixedPayload being built: [some, buf]
    parts,    \* history: the initial content and every appended chunk, in
              \* order, each as a slice descriptor [head, fill, b]
    stores,   \* history: the in-place stores made, in order, as <<i, b>>
    msg,      \* the OutboundOpaqueMessage: [some, typ, version, payload]
    wire,     \* result of OutboundOpaqueMessage::encode: [some, bytes],
              \* with the frame that was encoded (history)
    steps,    \* history: number of extend and store calls made so far
    \* --- record reading (outbound_opaque.rs) ---
    r,        \* the Reader records are read from
    sent,     \* history: the frames whose encodings make up r.buffer
    cut,      \* history: number of bytes removed from the end of the stream
    before,   \* history: cursor position before the last read
    res,      \* result of the last OutboundOpaqueMessage::read
    got       \* history: frames returned by the successful reads, in order

enumVars  == <<en, x, v, y>>
codecVars == <<rd, rres, enc>>
buildVars == <<pp, parts, stores, msg, wire, steps>>
readVars  == <<r, sent, cut, before, res, got>>
vars == <<en, x, v, y, rd, rres, enc, pp, parts, stores, msg, wire, steps,
          r, sent, cut, before, res, got>>

(***************************************************************************)
(* Integers of the backing widths and byte order.                          *)
(***************************************************************************)
\* number of values of an unsigned integer of `width` bytes
Range(width) == IF width = 1 THEN 256 ELSE 65536

\* uN::to_be_bytes
to_be_bytes(width, n) ==
    IF width = 1 THEN <<n>> ELSE <<n \div 256, n % 256>>

\* uN::from_be_bytes, as done by u8::read / u16::read
from_be_bytes(bs) ==
    IF Len(bs) = 1 THEN bs[1] ELSE bs[1] * 256 + bs[2]

\* `n as u16`
as_u16(n) == n % 65536

Zeros(n) == [i \in 1..n |-> 0]

(***************************************************************************)
(* Reader (msgs/codec.rs): a cursor over a byte slice.                     *)
(***************************************************************************)
Reader_init(bytes) == [buffer |-> bytes, cursor |-> 0]

Reader_left(rr) == Len(rr.buffer) - rr.cursor

\* Reader::take: the next n bytes, or None (and no move) if fewer remain
Reader_take(rr, n) ==
    IF Reader_left(rr) < n
    THEN [ok |-> FALSE, bytes |-> <<>>, r |-> rr]
    ELSE [ok |-> TRUE,
          bytes |-> SubSeq(rr.buffer, rr.cursor + 1, rr.cursor + n),
          r |-> [rr EXCEPT !.cursor = @ + n]]

\* the integer of a take: Some(bytes) gives the big-endian value
uint_of(t) ==
    IF t.ok THEN [ok |-> TRUE, val |-> from_be_bytes(t.bytes), r |-> t.r]
    ELSE [ok |-> FALSE, val |-> 0, r |-> t.r]

\* <u8 as Codec>::read / <u16 as Codec>::read
uint_read(width, rr) == uint_of(Reader_take(rr, width))

\* <u8 as Codec>::encode / <u16 as Codec>::encode
uint_encode(width, n, bytes) == bytes \o to_be_bytes(width, n)

(***************************************************************************)
(* The two enumerations the record header uses (enums.rs), as              *)
(* enum_builder! invocations: backing width and the variant => value list. *)
(***************************************************************************)
ContentType ==
    [name  |-> "ContentType",
     width |-> 1,
     table |-> << <<"ChangeCipherSpec", 20>>, <<"Alert", 21>>,
                  <<"Handshake", 22>>, <<"ApplicationData", 23>>,
                  <<"Heartbeat", 24>> >>]

ProtocolVersion ==
    [name  |-> "ProtocolVersion",
     width |-> 2,
     table |-> << <<"SSLv2", 512>>, <<"SSLv3", 768>>, <<"TLSv1_0", 769>>,
                  <<"TLSv1_1", 770>>, <<"TLSv1_2", 771>>, <<"TLSv1_3", 772>>,
                  <<"DTLSv1_0", 65279>>, <<"DTLSv1_2", 65277>>,
                  <<"DTLSv1_3", 65276>> >>]

Enums == {ContentType, ProtocolVersion}

(***************************************************************************)
(* enum_builder! (macros.rs): what the macro generates for an enumeration  *)
(* e = [name, width, table].                                               *)
(***************************************************************************)
Named(n) == <<n>>
Unknown(n) == <<"Unknown", n>>
IsUnknown(val) == val[1] = "Unknown"

\* the arm a `match` takes: the first one (least index) that matches
FirstArm(S) == CHOOSE i \in S : \A j \in S : i <= j

\* $get_uint keeping only the low byte of an Unknown value (`*x as u8`)
get_uint_low_byte(e, val) ==
    LET arms == {i \in 1..Len(e.table) : e.table[i][1] = val[1]}
    IN  IF arms # {} THEN e.table[FirstArm(arms)][2] ELSE val[2] % 256

\* $get_uint: the variant's constant, or the stored integer of Unknown
get_uint(e, val) ==
    LET arms == {i \in 1..Len(e.table) : e.table[i][1] = val[1]}
    IN  IF arms # {} THEN e.table[FirstArm(arms)][2] ELSE val[2]

\* From<$uint>: the first variant whose constant is n, else Unknown(n)
enum_from(e, n) ==
    LET arms == {i \in 1..Len(e.table) : e.table[i][2] = n}
    IN  IF arms # {} THEN Named(e.table[FirstArm(arms)][1]) ELSE Unknown(n)

\* get_array
get_array(e, val) == to_be_bytes(e.width, get_uint(e, val))

\* as_str: Some(name) is <<name>>, None is <<>>
as_str(e, val) == IF IsUnknown(val) THEN <<>> ELSE <<val[1]>>

\* Codec::encode
enum_encode(e, val, bytes) == uint_encode(e.width, get_uint(e, val), bytes)

\* Codec::read failing closed: an integer that names no variant is an error
enum_read_closed(e, u) ==
    IF u.ok /\ ~IsUnknown(enum_from(e, u.val))
    THEN [ok |-> TRUE, val |-> enum_from(e, u.val), err |-> <<>>, r |-> u.r]
    ELSE [ok |-> FALSE, val |-> <<>>, err |-> <<"MissingData", e.name>>,
          r |-> u.r]

\* Codec::read, the match on the result u of <$uint>::read
enum_read_match(e, u) ==
    IF u.ok
    THEN [ok |-> TRUE, val |-> enum_from(e, u.val), err |-> <<>>, r |-> u.r]
    ELSE [ok |-> FALSE, val |-> <<>>, err |-> <<"MissingData", e.name>>,
          r |-> u.r]

\* Codec::read
enum_read(e, rr) == enum_read_match(e, uint_read(e.width, rr))

(***************************************************************************)
(* PrefixedPayload (outbound_opaque.rs): a Vec<u8> whose first HEADER_SIZE *)
(* bytes are reserved for the record header.                               *)
(***************************************************************************)
MAX_PAYLOAD == 16384 + 2048

HEADER_SIZE == 1 + 2 + 2

MAX_WIRE_SIZE == MAX_PAYLOAD + HEADER_SIZE

\* PrefixedPayload::with_capacity: the capacity is only reserved; the
\* vector is resized to HEADER_SIZE zero bytes
with_capacity(capacity) == Zeros(HEADER_SIZE)

\* AsRef<[u8]>::as_ref: &self.0[HEADER_SIZE..]
as_ref(p) == SubSeq(p, HEADER_SIZE + 1, Len(p))

\* as_mut_store without the prefix offset: &mut self.0[..] instead of
\* &mut self.0[HEADER_SIZE..]
as_mut_store_unprefixed(p, i, b) == [p EXCEPT ![i + 1] = b]

\* AsMut<[u8]>::as_mut followed by a store slice[i] = b (i is 0-based and
\* in range: an out-of-range index panics)
as_mut_store(p, i, b) == [p EXCEPT ![HEADER_SIZE + i + 1] = b]

\* Extend<&u8>::extend
extend(p, iter) == p \o iter

\* From<&[u8]>::from: [&[0u8; HEADER_SIZE], content].concat()
PrefixedPayload_from(content) == Zeros(HEADER_SIZE) \o content

(***************************************************************************)
(* OutboundOpaqueMessage (outbound_opaque.rs).                             *)
(***************************************************************************)
\* OutboundOpaqueMessage::new
new(typ, version, payload) ==
    [typ |-> typ, version |-> version, payload |-> payload]

\* OutboundOpaqueMessage::payload
payload(m) == as_ref(m.payload)

\* OutboundOpaqueMessage::payload_mut followed by a store slice[i] = b
payload_mut_store(m, i, b) ==
    [m EXCEPT !.payload = as_mut_store(@, i, b)]

\* encode writing the length with to_le_bytes
encode_le_length(m) ==
    LET length  == as_u16(Len(payload(m)))
        ver     == to_be_bytes(2, get_uint(ProtocolVersion, m.version))
        len     == to_be_bytes(2, length)
    IN  [m.payload EXCEPT ![1] = get_uint(ContentType, m.typ),
                          ![2] = ver[1], ![3] = ver[2],
                          ![4] = len[2], ![5] = len[1]]

\* OutboundOpaqueMessage::encode
encode(m) ==
    LET length  == as_u16(Len(payload(m)))
        ver     == to_be_bytes(2, get_uint(ProtocolVersion, m.version))
        len     == to_be_bytes(2, length)
    IN  [m.payload EXCEPT ![1] = get_uint(ContentType, m.typ),
                          ![2] = ver[1], ![3] = ver[2],
                          ![4] = len[1], ![5] = len[2]]

\* OutboundOpaqueMessage::into_plain_message
into_plain_message(m) ==
    [version |-> m.version, typ |-> m.typ, payload |-> payload(m)]

HeaderErr(e, rr) ==
    [ok |-> FALSE, err |-> e, typ |-> <<>>, version |-> <<>>, len |-> 0,
     r |-> rr]

HeaderOk(t, ver, len) ==
    [ok |-> TRUE, err |-> "", typ |-> t.val, version |-> ver.val,
     len |-> len.val, r |-> len.r]

\* the checks on the length, given the results of the three reads
header_len(t, ver, len) ==
    IF ~len.ok THEN HeaderErr("TooShortForHeader", len.r)
    ELSE IF t.val # Named("ApplicationData") /\ len.val = 0
         THEN HeaderErr("InvalidEmptyPayload", len.r)
    ELSE IF len.val >= MAX_PAYLOAD THEN HeaderErr("MessageTooLarge", len.r)
    ELSE HeaderOk(t, ver, len)

\* the checks on the version, then the read of the length
header_version(t, ver) ==
    IF ~ver.ok THEN HeaderErr("TooShortForHeader", ver.r)
    ELSE IF IsUnknown(ver.val) /\ (ver.val[2] \div 256) * 256 # 768
         THEN HeaderErr("UnknownProtocolVersion", ver.r)
    ELSE header_len(t, ver, uint_read(2, ver.r))

\* the checks on the content type, then the read of the version
header_typ(t) ==
    IF ~t.ok THEN HeaderErr("TooShortForHeader", t.r)
    ELSE IF IsUnknown(t.val) THEN HeaderErr("InvalidContentType", t.r)
    ELSE header_version(t, enum_read(ProtocolVersion, t.r))

\* the checks of read_opaque_message_header made after all three reads
header_all_read(t, ver, len) ==
    IF ~t.ok THEN HeaderErr("TooShortForHeader", t.r)
    ELSE IF ~ver.ok THEN HeaderErr("TooShortForHeader", ver.r)
    ELSE IF ~len.ok THEN HeaderErr("TooShortForHeader", len.r)
    ELSE IF IsUnknown(t.val) THEN HeaderErr("InvalidContentType", len.r)
    ELSE IF IsUnknown(ver.val) /\ (ver.val[2] \div 256) * 256 # 768
         THEN HeaderErr("UnknownProtocolVersion", len.r)
    ELSE IF t.val # Named("ApplicationData") /\ len.val = 0
         THEN HeaderErr("InvalidEmptyPayload", len.r)
    ELSE IF len.val >= MAX_PAYLOAD THEN HeaderErr("MessageTooLarge", len.r)
    ELSE HeaderOk(t, ver, len)

header_read_len(t, ver) == header_all_read(t, ver, uint_read(2, ver.r))

header_read_version(t) == header_read_len(t, enum_read(ProtocolVersion, t.r))

\* read_opaque_message_header parsing the three fields before validating
\* any of them
read_opaque_message_header_parse_first(rr) ==
    header_read_version(enum_read(ContentType, rr))

\* read_opaque_message_header
read_opaque_message_header(rr) == header_typ(enum_read(ContentType, rr))

NoMsg == [typ |-> <<>>, version |-> <<>>, payload |-> <<>>]

ReadErr(e, rr) == [ok |-> FALSE, err |-> e, msg |-> NoMsg, r |-> rr]

\* the frame built from the header h and the payload bytes taken
ReadOk(h, content) ==
    [ok |-> TRUE, err |-> "",
     msg |-> new(h.typ, h.version, PrefixedPayload_from(content.bytes)),
     r |-> content.r]

\* OutboundOpaqueMessage::read, the result of r.take(len) for header h
read_content(h, content) ==
    IF ~content.ok THEN ReadErr("TooShortForLength", content.r)
    ELSE ReadOk(h, content)

\* OutboundOpaqueMessage::read after read_opaque_message_header gave h
read_payload(h) ==
    IF ~h.ok THEN ReadErr(h.err, h.r)
    ELSE read_content(h, Reader_take(h.r, h.len))

\* a read result with the cursor put back at rr when the header was rejected
rewound(result, rr) ==
    IF ~result.ok /\ result.err # "TooShortForLength"
    THEN [result EXCEPT !.r = rr] ELSE result

\* read putting the cursor back where it was when the header is rejected
read_rewinding(rr) ==
    rewound(read_payload(read_opaque_message_header(rr)), rr)

\* a read result with the reader drained when the payload was short
drained(result) ==
    IF ~result.ok /\ result.err = "TooShortForLength"
    THEN [result EXCEPT !.r = [@ EXCEPT !.cursor = Len(result.r.buffer)]]
    ELSE result

\* read draining the reader when the payload is short
read_draining(rr) == drained(read_payload(read_opaque_message_header(rr)))

\* read reporting a short payload with the header's error
read_one_short_error(rr) ==
    [read_payload(read_opaque_message_header(rr)) EXCEPT
        !.err = IF @ = "TooShortForLength" THEN "TooShortForHeader" ELSE @]

\* OutboundOpaqueMessage::read
read(rr) == read_payload(read_opaque_message_header(rr))

(***************************************************************************)
(* Values of the variables of the parts a specification does not use.      *)
(***************************************************************************)
NoPP   == [some |-> FALSE, buf |-> <<>>]
NoFrame == [some |-> FALSE, m |-> NoMsg]
NoWire == [some |-> FALSE, bytes |-> <<>>, frame |-> NoMsg]
NoRes  == [kind |-> "none", ok |-> FALSE, err |-> "", msg |-> NoMsg,
           typ |-> <<>>, version |-> <<>>, len |-> 0]
NoEnumRes == [done |-> FALSE, ok |-> FALSE, val |-> <<>>, err |-> <<>>,
              start |-> 0]

EnumIdle  == en = ContentType /\ x = 0 /\ v = <<>> /\ y = -1
CodecIdle == rd = Reader_init(<<>>) /\ rres = NoEnumRes /\ enc = <<>>
BuildIdle == /\ pp = NoPP /\ parts = <<>> /\ stores = <<>>
             /\ msg = NoFrame /\ wire = NoWire /\ steps = 0
ReadIdle  == /\ r = Reader_init(<<>>) /\ sent = <<>> /\ cut = -1
             /\ before = 0 /\ res = NoRes /\ got = <<>>

(***************************************************************************)
(* Bounds and input sets of the frame-construction specification.          *)
(***************************************************************************)
\* extend and store calls per behaviour
MaxSteps == 3
\* bytes beyond the u16 range a buffer may grow by
MaxOver == 8

Fill(n, b) == [i \in 1..n |-> b]

\* a byte slice handed to the program, described as the bytes `head`
\* followed by `fill` bytes of value b
Lit(bytes) == [head |-> bytes, fill |-> 0, b |-> 0]
Filled(n, b) == [head |-> <<>>, fill |-> n, b |-> b]
Slice(d) == d.head \o Fill(d.fill, d.b)
SliceLen(d) == Len(d.head) + d.fill

\* capacities handed to with_capacity
Capacities == {0, 16, MAX_PAYLOAD}
\* contents handed to From<&[u8]>
Contents == {Lit(<<>>), Lit(<<7>>), Lit(<<7, 8>>), Filled(MAX_PAYLOAD + 1, 9)}
\* chunks handed to extend: short ones, and one that fills the u16 range
Chunks == {Lit(<<1>>), Lit(<<2, 3>>), Filled(65535, 9)}
\* bytes stored through the mutable payload slice
StoreBytes == {255}
\* positions (0-based) stored to: the first and the last payload byte
StoreAt(p) == {i \in {0, Len(as_ref(p)) - 1} : 0 <= i /\ i < Len(as_ref(p))}

TypChoices == {Named("Handshake"), Unknown(99)}
VersionChoices == {Named("TLSv1_2"), Unknown(773)}

(***************************************************************************)
(* Frame construction: PrefixedPayload::with_capacity / from, extend,      *)
(* stores through as_mut / payload_mut, OutboundOpaqueMessage::new, encode.*)
(***************************************************************************)
Init == EnumIdle /\ CodecIdle /\ BuildIdle /\ ReadIdle

Fresh == ~pp.some /\ ~msg.some /\ ~wire.some

WithCapacity(c) ==
    /\ Fresh
    /\ pp' = [some |-> TRUE, buf |-> with_capacity(c)]
    /\ parts' = <<>>
    /\ stores' = <<>>
    /\ UNCHANGED <<msg, wire, steps, enumVars, codecVars, readVars>>

From(content) ==
    /\ Fresh
    /\ pp' = [some |-> TRUE, buf |-> PrefixedPayload_from(Slice(content))]
    /\ parts' = <<content>>
    /\ stores' = <<>>
    /\ UNCHANGED <<msg, wire, steps, enumVars, codecVars, readVars>>

Extend(chunk) ==
    /\ pp.some
    /\ steps < MaxSteps
    /\ Len(pp.buf) + SliceLen(chunk) <= HEADER_SIZE + 65536 + MaxOver
    /\ pp' = [pp EXCEPT !.buf = extend(@, Slice(chunk))]
    /\ parts' = Append(parts, chunk)
    /\ steps' = steps + 1
    /\ UNCHANGED <<stores, msg, wire, enumVars, codecVars, readVars>>

Store(i, b) ==
    /\ pp.some
    /\ steps < MaxSteps
    /\ i \in StoreAt(pp.buf)
    /\ pp' = [pp EXCEPT !.buf = as_mut_store(@, i, b)]
    /\ stores' = Append(stores, <<i, b>>)
    /\ steps' = steps + 1
    /\ UNCHANGED <<parts, msg, wire, enumVars, codecVars, readVars>>

New(typ, version) ==
    /\ pp.some
    /\ msg' = [some |-> TRUE, m |-> new(typ, version, pp.buf)]
    /\ pp' = NoPP
    /\ UNCHANGED <<parts, stores, wire, steps, enumVars, codecVars, readVars>>

PayloadMutStore(i, b) ==
    /\ msg.some
    /\ steps < MaxSteps
    /\ i \in StoreAt(msg.m.payload)
    /\ msg' = [msg EXCEPT !.m = payload_mut_store(@, i, b)]
    /\ stores' = Append(stores, <<i, b>>)
    /\ steps' = steps + 1
    /\ UNCHANGED <<pp, parts, wire, enumVars, codecVars, readVars>>

Encode ==
    /\ msg.some
    /\ wire' = [some |-> TRUE, bytes |-> encode(msg.m), frame |-> msg.m]
    /\ msg' = NoFrame
    /\ UNCHANGED <<pp, parts, stores, steps, enumVars, codecVars, readVars>>

Next ==
    \/ \E c \in Capacities : WithCapacity(c)
    \/ \E content \in Contents : From(content)
    \/ \E chunk \in Chunks : Extend(chunk)
    \/ \E i \in StoreAt(pp.buf), b \in StoreBytes : Store(i, b)
    \/ \E typ \in TypChoices, version \in VersionChoices : New(typ, version)
    \/ \E i \in StoreAt(msg.m.payload), b \in StoreBytes : PayloadMutStore(i, b)
    \/ Encode

Spec == Init /\ [][Next]_vars

(***************************************************************************)
(* Properties of frame construction, checked under Spec.                   *)
(***************************************************************************)
\* the initial content followed by the appended chunks, in order
RECURSIVE Concat(_, _)
Concat(ds, n) == IF n = 0 THEN <<>> ELSE Concat(ds, n - 1) \o Slice(ds[n])

Logical == Concat(parts, Len(parts))

\* bytes with the first n stores of ss applied, in order
RECURSIVE Stored(_, _, _)
Stored(bytes, ss, n) ==
    IF n = 0 THEN bytes
    ELSE [Stored(bytes, ss, n - 1) EXCEPT ![ss[n][1] + 1] = ss[n][2]]

\* Logical with every in-place store applied at its position
Written == Stored(Logical, stores, Len(stores))

\* the buffer of the payload or frame currently alive, if any
LiveBuffers ==
    (IF pp.some THEN {pp.buf} ELSE {}) \cup
    (IF msg.some THEN {msg.m.payload} ELSE {})

\* C7: encode returns exactly 5 + n bytes for a payload of n bytes: byte 0
\* the content-type integer, bytes 1-2 the version big-endian, bytes 3-4 n
\* big-endian with no truncation of the u16 length, then the payload
\* unchanged.
C7_EncodeLayout ==
    wire.some =>
        LET n == Len(payload(wire.frame))
        IN  /\ Len(wire.bytes) = HEADER_SIZE + n
            /\ wire.bytes[1] = get_uint(ContentType, wire.frame.typ)
            /\ wire.bytes[2] * 256 + wire.bytes[3]
                   = get_uint(ProtocolVersion, wire.frame.version)
            /\ wire.bytes[4] * 256 + wire.bytes[5] = n
            /\ SubSeq(wire.bytes, HEADER_SIZE + 1, Len(wire.bytes))
                   = payload(wire.frame)

\* C8: in every reachable state of an outbound frame the on-wire size (the
\* length of what encode would return or has returned) is at most
\* MAX_WIRE_SIZE.
C8_WireSizeBounded ==
    /\ \A b \in LiveBuffers : Len(b) <= MAX_WIRE_SIZE
    /\ msg.some => Len(encode(msg.m)) <= MAX_WIRE_SIZE
    /\ wire.some => Len(wire.bytes) <= MAX_WIRE_SIZE

\* C9 as stated: after any extend calls and in-place stores the buffer
\* holds at least 5 bytes, the payload accessor is the bytes after the
\* first 5 and equals the initial content followed by the appended bytes,
\* and the 5 prefix bytes are zero until encode.
C9_LayoutAsStated ==
    \A b \in LiveBuffers :
        /\ Len(b) >= HEADER_SIZE
        /\ as_ref(b) = Logical
        /\ SubSeq(b, 1, HEADER_SIZE) = Zeros(HEADER_SIZE)

\* C9 amended: the same, where the payload equals the initial content
\* followed by the appended bytes with every in-place store applied at its
\* position (a store changes the byte it writes and nothing else; the
\* length and the prefix are those of the claim).
C9_Layout ==
    \A b \in LiveBuffers :
        /\ Len(b) >= HEADER_SIZE
        /\ as_ref(b) = Written
        /\ Len(as_ref(b)) = Len(Logical)
        /\ Len(b) = HEADER_SIZE + Len(Logical)
        /\ SubSeq(b, 1, HEADER_SIZE) = Zeros(HEADER_SIZE)

\* C9 witness: a payload that was appended to and stored into, and whose
\* store changed a byte
C9_Witness ==
    /\ pp.some
    /\ steps >= 2
    /\ Len(Logical) >= 3
    /\ Written # Logical
    /\ as_ref(pp.buf) = Written

(***************************************************************************)
(* Enumeration conversions: From<$uint> and $get_uint applied to every     *)
(* integer of the backing width of each enumeration.                       *)
(***************************************************************************)
InitEnum ==
    /\ \E e \in Enums : en = e /\ x \in 0..(Range(e.width) - 1)
    /\ v = <<>> /\ y = -1
    /\ CodecIdle /\ BuildIdle /\ ReadIdle

FromUint ==
    /\ v = <<>>
    /\ v' = enum_from(en, x)
    /\ UNCHANGED <<en, x, y, codecVars, buildVars, readVars>>

GetUint ==
    /\ v # <<>>
    /\ y = -1
    /\ y' = get_uint(en, v)
    /\ UNCHANGED <<en, x, v, codecVars, buildVars, readVars>>

NextEnum == FromUint \/ GetUint

SpecEnum == InitEnum /\ [][NextEnum]_vars

\* the constants of an enumeration's named variants
Constants(e) == {e.table[i][2] : i \in 1..Len(e.table)}

\* C5: from(x) is defined for every integer x of the backing width and
\* get_u8/get_u16 of it returns exactly x; x maps to the named variant whose
\* constant is x when there is one and to Unknown(x) otherwise.
C5_EnumTotality ==
    /\ v # <<>> =>
          /\ x \in Constants(en) =>
                \E i \in 1..Len(en.table) :
                    en.table[i][2] = x /\ v = <<en.table[i][1]>>
          /\ x \notin Constants(en) => v = <<"Unknown", x>>
    /\ y # -1 => y = x

\* C5 witness: a 16-bit integer above 255 that names no variant went
\* through from and get_u16
C5_Witness ==
    /\ en.width = 2 /\ x > 255 /\ x \notin Constants(en)
    /\ v = <<"Unknown", x>> /\ y = x

(***************************************************************************)
(* Enumeration codec: Codec::read from a reader holding 0..width+1 bytes   *)
(* after an optional byte already consumed, then Codec::encode of the      *)
(* value read.                                                             *)
(***************************************************************************)
\* bytes already consumed from the reader before the enumeration is read
Leads == {<<>>, <<90>>}

InitCodec ==
    /\ \E e \in Enums, n \in 0..65535, k \in 0..3, lead \in Leads :
          /\ n < Range(e.width)
          /\ k <= e.width + 1
          /\ en = e
          /\ rd = [buffer |-> lead \o SubSeq(to_be_bytes(e.width, n) \o <<165>>, 1, k),
                   cursor |-> Len(lead)]
    /\ x = 0 /\ v = <<>> /\ y = -1
    /\ rres = NoEnumRes /\ enc = <<>>
    /\ BuildIdle /\ ReadIdle

EnumReadReturns(result) ==
    /\ rres' = [done |-> TRUE, ok |-> result.ok, val |-> result.val,
                err |-> result.err, start |-> rd.cursor]
    /\ rd' = result.r

EnumRead ==
    /\ ~rres.done
    /\ EnumReadReturns(enum_read(en, rd))
    /\ UNCHANGED <<enc, enumVars, buildVars, readVars>>

EnumEncode ==
    /\ rres.done /\ rres.ok
    /\ enc = <<>>
    /\ enc' = enum_encode(en, rres.val, <<>>)
    /\ UNCHANGED <<rd, rres, enumVars, buildVars, readVars>>

NextCodec == EnumRead \/ EnumEncode

SpecCodec == InitCodec /\ [][NextCodec]_vars

\* the bytes of the backing width at the position the read started from
BytesRead == SubSeq(rd.buffer, rres.start + 1, rres.start + en.width)

\* C6: Codec::read of an enumeration fails, with MissingData naming the
\* enumeration, exactly when fewer bytes than the backing width remain;
\* otherwise it never errors, a value that matches no named constant
\* yields Unknown carrying that integer, and encode of the decoded value
\* reproduces the bytes read.
C6_EnumDecode ==
    rres.done =>
        /\ rres.ok = (Len(rd.buffer) - rres.start >= en.width)
        /\ ~rres.ok => rres.err = <<"MissingData", en.name>>
        /\ rres.ok =>
              LET n == IF en.width = 1 THEN BytesRead[1]
                       ELSE BytesRead[1] * 256 + BytesRead[2]
              IN  n \notin Constants(en) => rres.val = <<"Unknown", n>>
        /\ enc # <<>> => enc = BytesRead

\* C6 witness: a 16-bit value that names no variant was read from a
\* non-zero cursor position and encoded again
C6_Witness ==
    /\ en.width = 2 /\ rres.done /\ rres.ok /\ rres.start = 1
    /\ rres.val[1] = "Unknown"
    /\ Len(enc) = 2

(***************************************************************************)
(* Reading: the two entry points applied to a Reader.                      *)
(***************************************************************************)
\* the record kept of a call's result
HeaderResult(h) ==
    [kind |-> "header", ok |-> h.ok, err |-> h.err, msg |-> NoMsg,
     typ |-> h.typ, version |-> h.version, len |-> h.len]

ReadResult(m) ==
    [kind |-> "read", ok |-> m.ok, err |-> m.err, msg |-> m.msg,
     typ |-> <<>>, version |-> <<>>, len |-> 0]

ReadHeaderReturns(h) ==
    /\ res' = HeaderResult(h)
    /\ r' = h.r

\* read_opaque_message_header called on r
ReadHeader ==
    /\ res.kind = "none"
    /\ ReadHeaderReturns(read_opaque_message_header(r))
    /\ before' = r.cursor
    /\ UNCHANGED <<sent, cut, got, enumVars, codecVars, buildVars>>

ReadReturns(m) ==
    /\ res' = ReadResult(m)
    /\ r' = m.r
    /\ got' = IF m.ok THEN Append(got, m.msg) ELSE got

\* OutboundOpaqueMessage::read called on r: the first read, or the next
\* one after a read that returned a frame
Read ==
    /\ cut >= 0
    /\ res.kind = "none" \/ (res.kind = "read" /\ res.ok)
    /\ ReadReturns(read(r))
    /\ before' = r.cursor
    /\ UNCHANGED <<sent, cut, enumVars, codecVars, buildVars>>

(***************************************************************************)
(* Header validation on raw input: every prefix of sampled 5-byte headers  *)
(* followed by up to two more bytes, after an optional consumed byte.      *)
(***************************************************************************)
TypBytes   == {0, 20, 22, 23, 24, 25, 255}
VerHiBytes == {2, 3, 7, 254}
VerLoBytes == {0, 3, 5, 252, 255}
LenHiBytes == {0, 66, 71, 72, 255}
LenLoBytes == {0, 1, 16, 255}
Tails      == {<<>>, <<9>>, <<9, 8>>}

InitHeader ==
    /\ \E t \in TypBytes, vh \in VerHiBytes, vl \in VerLoBytes,
          lh \in LenHiBytes, ll \in LenLoBytes, tail \in Tails,
          k \in 0..(HEADER_SIZE + 2), lead \in Leads :
          /\ k <= HEADER_SIZE + Len(tail)
          /\ r = [buffer |-> lead \o SubSeq(<<t, vh, vl, lh, ll>> \o tail, 1, k),
                  cursor |-> Len(lead)]
    /\ sent = <<>> /\ cut = 0 /\ before = 0 /\ res = NoRes /\ got = <<>>
    /\ EnumIdle /\ CodecIdle /\ BuildIdle

NextHeader == ReadHeader \/ Read

SpecHeader == InitHeader /\ [][NextHeader]_vars

\* the input of the last call: the bytes from the cursor it started at
Input == SubSeq(r.buffer, before + 1, Len(r.buffer))

\* the outcome the header rules give for a byte sequence, by the first rule
\* that fails: <<"Err", kind>> or <<"Ok", type byte, version, length>>
HeaderRule(bytes) ==
    LET n   == Len(bytes)
        ver == bytes[2] * 256 + bytes[3]
        len == bytes[4] * 256 + bytes[5]
    IN  IF n < 1 THEN <<"Err", "TooShortForHeader">>
        ELSE IF bytes[1] \notin Constants(ContentType)
             THEN <<"Err", "InvalidContentType">>
        ELSE IF n < 3 THEN <<"Err", "TooShortForHeader">>
        ELSE IF ver \notin Constants(ProtocolVersion) /\ bytes[2] # 3
             THEN <<"Err", "UnknownProtocolVersion">>
        ELSE IF n < 5 THEN <<"Err", "TooShortForHeader">>
        ELSE IF len = 0 /\ bytes[1] # 23
             THEN <<"Err", "InvalidEmptyPayload">>
        ELSE IF len >= 18432 THEN <<"Err", "MessageTooLarge">>
        ELSE <<"Ok", bytes[1], ver, len>>

\* the enumeration value an integer stands for: the named variant with
\* that constant, or Unknown
ValueOf(e, n, val) ==
    IF n \in Constants(e)
    THEN \E i \in 1..Len(e.table) : e.table[i][2] = n /\ val = <<e.table[i][1]>>
    ELSE val = <<"Unknown", n>>

HeaderErrors ==
    {"TooShortForHeader", "InvalidContentType", "UnknownProtocolVersion",
     "InvalidEmptyPayload", "MessageTooLarge"}

HeaderRejected == res.kind = "read" /\ ~res.ok /\ res.err \in HeaderErrors

\* C4 as stated: when header validation rejects the input, read returns
\* that error, no payload byte is consumed and the cursor is where it was
\* before the call.
C4_CursorUnmoved ==
    HeaderRejected =>
        /\ res.err = HeaderRule(Input)[2]
        /\ res.msg = NoMsg
        /\ r.cursor = before

\* C4 amended: when header validation rejects the input, read returns that
\* error and no frame, and the cursor has moved only over the header
\* fields read before the failing check: 1 byte for InvalidContentType, 3
\* for UnknownProtocolVersion, 5 for InvalidEmptyPayload and
\* MessageTooLarge, and 0, 1 or 3 for TooShortForHeader; never past the 5
\* header bytes, so no payload byte is consumed.
C4_HeaderBytesOnly ==
    HeaderRejected =>
        LET moved == r.cursor - before
        IN  /\ res.err = HeaderRule(Input)[2]
            /\ res.msg = NoMsg
            /\ moved <= 5
            /\ res.err = "InvalidContentType" => moved = 1
            /\ res.err = "UnknownProtocolVersion" => moved = 3
            /\ res.err \in {"InvalidEmptyPayload", "MessageTooLarge"} => moved = 5
            /\ res.err = "TooShortForHeader" =>
                  moved = (IF Len(Input) < 1 THEN 0
                           ELSE IF Len(Input) < 3 THEN 1 ELSE 3)

\* C4 witness: a header rejected as too large with payload bytes behind it
C4_Witness ==
    /\ HeaderRejected /\ res.err = "MessageTooLarge"
    /\ Len(Input) = HEADER_SIZE + 2
    /\ r.cursor = before + HEADER_SIZE

(***************************************************************************)
(* Round trip: one frame is encoded, a prefix of its encoding is handed to *)
(* a Reader, and the frame is read back.                                   *)
(***************************************************************************)
\* prefix lengths tried: up to HeadKeep bytes, or all but at most TailCut
HeadKeep == 8
TailCut == 2

RTTyps ==
    {Named(ContentType.table[i][1]) : i \in 1..Len(ContentType.table)}
        \cup {Unknown(0), Unknown(25)}
RTVersions ==
    {Named("SSLv2"), Named("TLSv1_2"), Named("DTLSv1_3"),
     Unknown(773), Unknown(1023), Unknown(771), Unknown(1024), Unknown(2)}
RTPayloads ==
    {<<>>, <<1>>, <<22, 3, 3>>, Fill(MAX_PAYLOAD - 1, 5), Fill(MAX_PAYLOAD, 6)}

InitRoundTrip ==
    /\ \E typ \in RTTyps, version \in RTVersions, content \in RTPayloads :
          msg = [some |-> TRUE,
                 m |-> new(typ, version, PrefixedPayload_from(content))]
    /\ pp = NoPP /\ parts = <<>> /\ stores = <<>> /\ wire = NoWire
    /\ steps = 0
    /\ EnumIdle /\ CodecIdle /\ ReadIdle

\* a Reader is opened over the first `keep` bytes of the encoding
Feed(keep) ==
    /\ wire.some
    /\ cut = -1
    /\ keep <= Len(wire.bytes)
    /\ keep <= HeadKeep \/ keep >= Len(wire.bytes) - TailCut
    /\ r' = Reader_init(SubSeq(wire.bytes, 1, keep))
    /\ cut' = Len(wire.bytes) - keep
    /\ sent' = <<wire.frame>>
    /\ UNCHANGED <<before, res, got, enumVars, codecVars, buildVars>>

NextRoundTrip ==
    \/ Encode
    \/ \E keep \in (0..HeadKeep) \cup
                    ((Len(wire.bytes) - TailCut)..Len(wire.bytes)) : Feed(keep)
    \/ Read

SpecRoundTrip == InitRoundTrip /\ [][NextRoundTrip]_vars

\* the claim's conditions on a frame's content type and payload length
ValidTypeAndLength(m) ==
    /\ m.typ[1] # "Unknown"
    /\ Len(m.payload) - 5 < 18432
    /\ Len(m.payload) - 5 > 0 \/ m.typ = <<"ApplicationData">>

\* the frame of C1 and C3: a named content type, a version that is named
\* or Unknown with high byte 0x03, a payload of valid length
ValidFrame(m) ==
    /\ ValidTypeAndLength(m)
    /\ m.version[1] = "Unknown" => m.version[2] \div 256 = 3

\* the first read of a reader
FirstRead == res.kind = "read" /\ Len(sent) = 1 /\ before = 0

\* the frame read equals frame m in content type, version and payload
SameFrame(m) ==
    /\ res.ok
    /\ res.msg.typ = m.typ
    /\ res.msg.version = m.version
    /\ SubSeq(res.msg.payload, 6, Len(res.msg.payload))
          = SubSeq(m.payload, 6, Len(m.payload))

\* C1 as stated: read of the whole encoding of a valid frame (named type,
\* version named or Unknown with high byte 0x03, valid length) succeeds
\* with the same content type, the same version and the same payload.
C1_RoundTripAsStated ==
    (FirstRead /\ cut = 0 /\ ValidFrame(sent[1])) => SameFrame(sent[1])

\* C1 amended: the same for a version that is named or is Unknown with
\* high byte 0x03 and the constant of no named variant; an Unknown version
\* holding a named variant's constant (such as Unknown(0x0303)) is read
\* back as that named variant, with the same type and payload.
C1_RoundTrip ==
    (FirstRead /\ cut = 0 /\ ValidFrame(sent[1])) =>
        LET m == sent[1]
        IN  IF m.version[1] = "Unknown"
               /\ m.version[2] \in Constants(ProtocolVersion)
            THEN /\ SameFrame([m EXCEPT !.version = res.msg.version])
                 /\ res.msg.version[1] # "Unknown"
                 /\ ValueOf(ProtocolVersion, m.version[2], res.msg.version)
            ELSE SameFrame(m)

\* C1 witness: a frame with an Unknown 0x03xx version and the largest
\* valid payload was read back
C1_Witness ==
    /\ FirstRead /\ cut = 0 /\ res.ok
    /\ sent[1].version = <<"Unknown", 1023>>
    /\ Len(res.msg.payload) = 5 + 18431

\* C3: read of a prefix of a valid encoded frame returns TooShortForHeader
\* when the prefix is shorter than 5 bytes and TooShortForLength when it
\* holds the header but not the whole payload; TooShortForLength is only
\* returned for a header that passes every check.
C3_Truncation ==
    FirstRead =>
        /\ (ValidFrame(sent[1]) /\ Len(r.buffer) < 5) =>
              (~res.ok /\ res.err = "TooShortForHeader")
        /\ (ValidFrame(sent[1]) /\ Len(r.buffer) >= 5 /\ cut > 0) =>
              (~res.ok /\ res.err = "TooShortForLength")
        /\ (~res.ok /\ res.err = "TooShortForLength") =>
              /\ HeaderRule(Input)[1] = "Ok"
              /\ Len(Input) < 5 + HeaderRule(Input)[4]

\* C3 witness: the largest valid frame with its last byte missing
C3_Witness ==
    /\ FirstRead /\ cut = 1 /\ ValidFrame(sent[1])
    /\ Len(r.buffer) = 5 + 18431 - 1
    /\ res.err = "TooShortForLength"

(***************************************************************************)
(* Stream: the encodings of several frames are concatenated, a Reader is   *)
(* opened over the stream less its last `cut` bytes, and frames are read   *)
(* until a read fails.                                                     *)
(***************************************************************************)
MaxFrames == 2
MaxCut == 7

StreamFrames ==
    {new(typ, version, PrefixedPayload_from(content)) :
        typ \in {Named("Handshake"), Named("ApplicationData"), Unknown(99)},
        version \in {Named("TLSv1_2"), Unknown(773)},
        content \in {<<>>, <<1>>, <<22, 3, 3, 0, 1, 9>>}}

InitStream == EnumIdle /\ CodecIdle /\ BuildIdle /\ ReadIdle

\* a frame is encoded and its bytes are appended to the stream
Push(m) ==
    /\ cut = -1
    /\ Len(sent) < MaxFrames
    /\ wire' = [some |-> TRUE, bytes |-> wire.bytes \o encode(m), frame |-> m]
    /\ sent' = Append(sent, m)
    /\ UNCHANGED <<pp, parts, stores, msg, steps, r, cut, before, res, got,
                   enumVars, codecVars>>

\* a Reader is opened over the stream less its last c bytes
Open(c) ==
    /\ cut = -1
    /\ c <= Len(wire.bytes)
    /\ r' = Reader_init(SubSeq(wire.bytes, 1, Len(wire.bytes) - c))
    /\ cut' = c
    /\ UNCHANGED <<sent, before, res, got, enumVars, codecVars, buildVars>>

NextStream ==
    \/ \E m \in StreamFrames : Push(m)
    \/ \E c \in 0..MaxCut : Open(c)
    \/ Read

SpecStream == InitStream /\ [][NextStream]_vars

\* total encoded size of the first n frames of a sequence
RECURSIVE WireLen(_, _)
WireLen(frames, n) ==
    IF n = 0 THEN 0 ELSE WireLen(frames, n - 1) + Len(frames[n].payload)

AllValid == \A i \in 1..Len(sent) : ValidFrame(sent[i])

\* C10: a successful read advances the cursor by exactly 5 + length, a
\* failed read by at most 5, and a TooShortForLength failure leaves every
\* payload byte unconsumed; reading repeatedly from the concatenation of k
\* valid encoded frames returns those frames in order, leaves the cursor
\* at the end of the input, and the next read returns TooShortForHeader.
C10_CursorAccounting ==
    res.kind = "read" =>
        /\ res.ok => r.cursor = before + 5 + (Len(res.msg.payload) - 5)
        /\ ~res.ok => r.cursor <= before + 5
        /\ (~res.ok /\ res.err = "TooShortForLength") => r.cursor = before + 5
        /\ (cut = 0 /\ AllValid) =>
              /\ Len(got) <= Len(sent)
              /\ got = SubSeq(sent, 1, Len(got))
              /\ res.ok => r.cursor = WireLen(sent, Len(got))
              /\ ~res.ok => /\ Len(got) = Len(sent)
                            /\ r.cursor = Len(r.buffer)
                            /\ res.err = "TooShortForHeader"

\* C10 witness: two frames were read from a stream of two and the third
\* read found the input exhausted
C10_Witness ==
    /\ res.kind = "read" /\ cut = 0 /\ AllValid
    /\ Len(sent) = 2 /\ got = sent
    /\ sent[1] # sent[2]
    /\ ~res.ok /\ res.err = "TooShortForHeader"
    /\ r.cursor = Len(r.buffer)

====
